---- MODULE Spec2Model ----
(***************************************************************************)
(* Model of tools/dictuk2multext.py: the conversion of dict_uk tag bundles *)
(* to MULTEXT-East MSD codes (tags_to_msd and its per-POS encoders), the   *)
(* lemma classifiers is_roman / is_number, and the line driver main.       *)
(*                                                                         *)
(* A Python str is modelled as a sequence of one-character strings, so     *)
(* that splitting, stripping, joining and trimming are computed and not    *)
(* assumed.  A Cyrillic character is written as its code point, "U+0432",  *)
(* through the records Cy (lower case) and CyUp (upper case).              *)
(***************************************************************************)
EXTENDS Naturals, Sequences, FiniteSets

VARIABLES
    tags,        \* tags_to_msd: the list of tags (a sequence of strings)
    lemma,       \* tags_to_msd / is_roman / is_number: the lemma string
    msd,         \* tags_to_msd: the template, positions 0 .. 14
    out,         \* tags_to_msd: the returned string
    pc,          \* position in tags_to_msd, in the auxiliary call or in main
    ret,         \* the value returned by is_roman / is_number
    infile,      \* main: the lines of the input file still to be read
    line_num,    \* main: enumerate(infile, 1) counter of the last line read
    line,        \* main: the last line read, as it stood in the file
    outfile,     \* main: the records written to the output file, in order
    stderr,      \* main: the diagnostics printed, in order
    line_count   \* main: number of records converted

vars == <<tags, lemma, msd, out, pc, ret, infile, line_num, line, outfile,
          stderr, line_count>>

-----------------------------------------------------------------------------
(* Bounds of the explored inputs.                                          *)
MaxTags == 3
MaxFeatTags == 4
MaxLemmaLen == 3
MaxLineLen == 3
MaxLines == 2

(* msd = ['-'] * 15                                                        *)
MsdLen == 15

-----------------------------------------------------------------------------
(* Characters and string helpers.                                          *)

(* The tag literals of the source; d1, d2, d3 are the tags 1, 2, 3.         *)
Tg ==
    [ noun |-> <<"n", "o", "u", "n">>,
      verb |-> <<"v", "e", "r", "b">>,
      adj |-> <<"a", "d", "j">>,
      adv |-> <<"a", "d", "v">>,
      advp |-> <<"a", "d", "v", "p">>,
      adjp |-> <<"a", "d", "j", "p">>,
      prep |-> <<"p", "r", "e", "p">>,
      conj |-> <<"c", "o", "n", "j">>,
      part |-> <<"p", "a", "r", "t">>,
      intj |-> <<"i", "n", "t", "j">>,
      numr |-> <<"n", "u", "m", "r">>,
      noninfl |-> <<"n", "o", "n", "i", "n", "f", "l">>,
      onomat |-> <<"o", "n", "o", "m", "a", "t">>,
      insert |-> <<"i", "n", "s", "e", "r", "t">>,
      pron |-> <<"p", "r", "o", "n">>,
      predic |-> <<"p", "r", "e", "d", "i", "c">>,
      abbr |-> <<"a", "b", "b", "r">>,
      prop |-> <<"p", "r", "o", "p">>,
      geo |-> <<"g", "e", "o">>,
      fname |-> <<"f", "n", "a", "m", "e">>,
      lname |-> <<"l", "n", "a", "m", "e">>,
      pname |-> <<"p", "n", "a", "m", "e">>,
      m |-> <<"m">>,
      f |-> <<"f">>,
      n |-> <<"n">>,
      c |-> <<"c">>,
      p |-> <<"p">>,
      ns |-> <<"n", "s">>,
      s |-> <<"s">>,
      nv |-> <<"n", "v">>,
      v_naz |-> <<"v", "_", "n", "a", "z">>,
      v_rod |-> <<"v", "_", "r", "o", "d">>,
      v_dav |-> <<"v", "_", "d", "a", "v">>,
      v_zna |-> <<"v", "_", "z", "n", "a">>,
      v_oru |-> <<"v", "_", "o", "r", "u">>,
      v_mis |-> <<"v", "_", "m", "i", "s">>,
      v_kly |-> <<"v", "_", "k", "l", "y">>,
      anim |-> <<"a", "n", "i", "m">>,
      unanim |-> <<"u", "n", "a", "n", "i", "m">>,
      inanim |-> <<"i", "n", "a", "n", "i", "m">>,
      imperf |-> <<"i", "m", "p", "e", "r", "f">>,
      perf |-> <<"p", "e", "r", "f">>,
      impers |-> <<"i", "m", "p", "e", "r", "s">>,
      inf |-> <<"i", "n", "f">>,
      impr |-> <<"i", "m", "p", "r">>,
      pres |-> <<"p", "r", "e", "s">>,
      futr |-> <<"f", "u", "t", "r">>,
      past |-> <<"p", "a", "s", "t">>,
      d1 |-> <<"1">>,
      d2 |-> <<"2">>,
      d3 |-> <<"3">>,
      ord |-> <<"o", "r", "d">>,
      compc |-> <<"c", "o", "m", "p", "c">>,
      comps |-> <<"c", "o", "m", "p", "s">>,
      long |-> <<"l", "o", "n", "g">>,
      short |-> <<"s", "h", "o", "r", "t">>,
      ranim |-> <<"r", "a", "n", "i", "m">>,
      rinanim |-> <<"r", "i", "n", "a", "n", "i", "m">>,
      actv |-> <<"a", "c", "t", "v">>,
      pasv |-> <<"p", "a", "s", "v">>,
      pers |-> <<"p", "e", "r", "s">>,
      refl |-> <<"r", "e", "f", "l">>,
      pos |-> <<"p", "o", "s">>,
      dem |-> <<"d", "e", "m">>,
      int |-> <<"i", "n", "t">>,
      rel |-> <<"r", "e", "l">>,
      neg |-> <<"n", "e", "g">>,
      ind |-> <<"i", "n", "d">>,
      gen |-> <<"g", "e", "n">>,
      emph |-> <<"e", "m", "p", "h">>,
      coord |-> <<"c", "o", "o", "r", "d">> ]

(* The lower-case Cyrillic letters of the source's string literals.        *)
Cy ==
    [ a |-> "U+0430",
      b |-> "U+0431",
      v |-> "U+0432",
      h |-> "U+0433",
      d |-> "U+0434",
      e |-> "U+0435",
      zh |-> "U+0436",
      z |-> "U+0437",
      y |-> "U+0438",
      k |-> "U+043A",
      l |-> "U+043B",
      m |-> "U+043C",
      n |-> "U+043D",
      o |-> "U+043E",
      p |-> "U+043F",
      r |-> "U+0440",
      s |-> "U+0441",
      t |-> "U+0442",
      u |-> "U+0443",
      kh |-> "U+0445",
      ch |-> "U+0447",
      soft |-> "U+044C",
      yu |-> "U+044E",
      ya |-> "U+044F",
      i |-> "U+0456" ]

(* The upper-case Cyrillic letters named by is_roman's translation table.  *)
CyUp == [ I |-> "U+0406", Kh |-> "U+0425", S |-> "U+0421", M |-> "U+041C" ]

upper_map ==
    << <<"a", "A">>, <<"b", "B">>, <<"c", "C">>, <<"d", "D">>,
       <<"e", "E">>, <<"f", "F">>, <<"g", "G">>, <<"h", "H">>,
       <<"i", "I">>, <<"j", "J">>, <<"k", "K">>, <<"l", "L">>,
       <<"m", "M">>, <<"n", "N">>, <<"o", "O">>, <<"p", "P">>,
       <<"q", "Q">>, <<"r", "R">>, <<"s", "S">>, <<"t", "T">>,
       <<"u", "U">>, <<"v", "V">>, <<"w", "W">>, <<"x", "X">>,
       <<"y", "Y">>, <<"z", "Z">>, <<Cy.a, "U+0410">>, <<Cy.b, "U+0411">>,
       <<Cy.v, "U+0412">>, <<Cy.h, "U+0413">>, <<Cy.d, "U+0414">>, <<Cy.e, "U+0415">>,
       <<Cy.zh, "U+0416">>, <<Cy.z, "U+0417">>, <<Cy.y, "U+0418">>, <<Cy.k, "U+041A">>,
       <<Cy.l, "U+041B">>, <<Cy.m, "U+041C">>, <<Cy.n, "U+041D">>, <<Cy.o, "U+041E">>,
       <<Cy.p, "U+041F">>, <<Cy.r, "U+0420">>, <<Cy.s, "U+0421">>, <<Cy.t, "U+0422">>,
       <<Cy.u, "U+0423">>, <<Cy.kh, "U+0425">>, <<Cy.ch, "U+0427">>, <<Cy.soft, "U+042C">>,
       <<Cy.yu, "U+042E">>, <<Cy.ya, "U+042F">>, <<Cy.i, "U+0406">> >>

(* set(tags): the elements of a list.                                      *)
Range(s) == { s[i] : i \in 1..Len(s) }

(* The least element of a non-empty set of naturals.                       *)
Min(S) == CHOOSE x \in S : \A y \in S : x <= y

(* d.get(key, default) on a dict written as the sequence of its items.     *)
dict_get(d, key, default) ==
    LET hits == { i \in 1..Len(d) : d[i][1] = key }
    IN  IF hits = {} THEN default ELSE d[Min(hits)][2]

(* for tag, v in d.items(): if tag in tag_set: <slot> = v; break           *)
(* The value of the slot afterwards, cur being its value before.           *)
first_match(d, tag_set, cur) ==
    LET hits == { i \in 1..Len(d) : d[i][1] \in tag_set }
    IN  IF hits = {} THEN cur ELSE d[Min(hits)][2]

(* c in s, for a one-character c.                                          *)
contains(s, c) == c \in Range(s)

(* msd[i] = v                                                              *)
put(m, i, v) == [m EXCEPT ![i] = v]

(* ['-'] * 15                                                              *)
template == [i \in 0..(MsdLen - 1) |-> <<"-">>]

(* The case_map literal shared by the noun, adjective, pronoun and numeral *)
(* encoders, in the order of its items.                                    *)
case_map ==
    << <<Tg.v_naz, <<"n">>>>, <<Tg.v_rod, <<"g">>>>, <<Tg.v_dav, <<"d">>>>,
       <<Tg.v_zna, <<"a">>>>, <<Tg.v_oru, <<"i">>>>, <<Tg.v_mis, <<"l">>>>,
       <<Tg.v_kly, <<"v">>>> >>

person_map == << <<Tg.d1, <<"1">>>>, <<Tg.d2, <<"2">>>>, <<Tg.d3, <<"3">>>> >>

gender_map == << <<Tg.m, <<"m">>>>, <<Tg.f, <<"f">>>>, <<Tg.n, <<"n">>>> >>

tense_map == << <<Tg.pres, <<"p">>>>, <<Tg.futr, <<"f">>>>, <<Tg.past, <<"s">>>> >>

(* pos_map with the gerund taken for an adverb.                            *)
pos_map_advp_as_adverb ==
    << <<Tg.noun, <<"N">>>>, <<Tg.verb, <<"V">>>>, <<Tg.adj, <<"A">>>>,
       <<Tg.adv, <<"R">>>>, <<Tg.advp, <<"R">>>>, <<Tg.adjp, <<"A">>>>,
       <<Tg.prep, <<"S">>>>, <<Tg.conj, <<"C">>>>, <<Tg.part, <<"Q">>>>,
       <<Tg.intj, <<"I">>>>, <<Tg.numr, <<"M">>>>, <<Tg.noninfl, <<"X">>>>,
       <<Tg.onomat, <<"I">>>>, <<Tg.insert, <<"X">>>> >>

pos_map ==
    << <<Tg.noun, <<"N">>>>, <<Tg.verb, <<"V">>>>, <<Tg.adj, <<"A">>>>,
       <<Tg.adv, <<"R">>>>, <<Tg.advp, <<"V">>>>, <<Tg.adjp, <<"A">>>>,
       <<Tg.prep, <<"S">>>>, <<Tg.conj, <<"C">>>>, <<Tg.part, <<"Q">>>>,
       <<Tg.intj, <<"I">>>>, <<Tg.numr, <<"M">>>>, <<Tg.noninfl, <<"X">>>>,
       <<Tg.onomat, <<"I">>>>, <<Tg.insert, <<"X">>>> >>

-----------------------------------------------------------------------------
(* The per-POS encoders.  Each takes the template and returns it as the    *)
(* Python function leaves it.                                              *)

(* The animacy slot of the noun and pronoun encoders.                       *)
animacy(tag_set, cur) ==
    IF Tg.anim \in tag_set \/ Tg.unanim \in tag_set THEN <<"y">>
    ELSE IF Tg.inanim \in tag_set THEN <<"n">>
    ELSE cur

(* The case slot: '-' under nv, else the first case tag of case_map.       *)
case_slot(tag_set, cur) ==
    IF Tg.nv \in tag_set THEN <<"-">> ELSE first_match(case_map, tag_set, cur)

(* Gender (Position 2) of a noun.                                          *)
noun_gender(tag_set, cur) ==
    IF Tg.p \in tag_set /\ {Tg.m, Tg.f, Tg.n} \cap tag_set = {}
    THEN <<"-">>
    ELSE IF Tg.m \in tag_set THEN <<"m">>
    ELSE IF Tg.f \in tag_set THEN <<"f">>
    ELSE IF Tg.n \in tag_set THEN <<"n">>
    ELSE IF Tg.c \in tag_set THEN <<"c">>
    ELSE cur

_process_noun(m, tag_set) ==
    [m EXCEPT
       ![1] = IF {Tg.prop, Tg.geo, Tg.fname, Tg.lname, Tg.pname} \cap tag_set # {}
              THEN <<"p">> ELSE <<"c">>,
       ![2] = noun_gender(tag_set, @),
       ![3] = IF Tg.p \in tag_set \/ Tg.ns \in tag_set THEN <<"p">> ELSE <<"s">>,
       ![4] = case_slot(tag_set, @),
       ![5] = animacy(tag_set, @)]

_process_verb(m, tag_set, base_pos) ==
    [m EXCEPT
       ![1] = <<"m">>,
       ![2] = IF Tg.imperf \in tag_set THEN <<"p">>
              ELSE IF Tg.perf \in tag_set THEN <<"e">>
              ELSE <<"b">>,
       ![3] = IF Tg.impers \in tag_set THEN <<"o">>
              ELSE IF Tg.inf \in tag_set THEN <<"n">>
              ELSE IF Tg.impr \in tag_set THEN <<"m">>
              ELSE IF Tg.advp \in tag_set \/ base_pos = Tg.advp THEN <<"g">>
              ELSE <<"i">>,
       ![4] = first_match(tense_map, tag_set, @),
       ![5] = first_match(person_map, tag_set, @),
       ![6] = IF Tg.p \in tag_set THEN <<"p">>
              ELSE IF Tg.s \in tag_set THEN <<"s">>
              ELSE @,
       ![7] = first_match(gender_map, tag_set, @)]

(* Type (Position 1) of an adjective.                                      *)
adjective_type(tag_set, is_adjp) ==
    IF is_adjp THEN <<"p">>
    ELSE IF Tg.ord \in tag_set THEN <<"o">>
    ELSE <<"f">>

(* Animacy (Position 7) of an adjective: "only for accusative".            *)
adjective_animacy(tag_set, cur) ==
    IF Tg.v_zna \in tag_set
    THEN IF Tg.ranim \in tag_set THEN <<"y">>
         ELSE IF Tg.rinanim \in tag_set THEN <<"n">>
         ELSE cur
    ELSE cur

_process_adjective(m, tag_set, base_pos, is_adjp) ==
    [m EXCEPT
       ![1] = adjective_type(tag_set, is_adjp),
       ![2] = IF Tg.compc \in tag_set THEN <<"c">>
              ELSE IF Tg.comps \in tag_set THEN <<"s">>
              ELSE IF adjective_type(tag_set, is_adjp) = <<"f">> THEN <<"p">>
              ELSE @,
       ![3] = first_match(gender_map \o << <<Tg.c, <<"c">>>> >>, tag_set, @),
       ![4] = IF Tg.p \in tag_set THEN <<"p">> ELSE <<"s">>,
       ![5] = case_slot(tag_set, @),
       ![6] = IF Tg.long \in tag_set THEN <<"f">>
              ELSE IF Tg.short \in tag_set THEN <<"s">>
              ELSE @,
       ![7] = adjective_animacy(tag_set, @),
       ![8] = IF is_adjp /\ Tg.imperf \in tag_set THEN <<"p">>
              ELSE IF is_adjp /\ Tg.perf \in tag_set THEN <<"e">>
              ELSE @,
       ![9] = IF is_adjp /\ Tg.actv \in tag_set THEN <<"a">>
              ELSE IF is_adjp /\ Tg.pasv \in tag_set THEN <<"p">>
              ELSE @,
       ![10] = IF is_adjp /\ Tg.pres \in tag_set THEN <<"p">>
               ELSE IF is_adjp /\ Tg.past \in tag_set THEN <<"s">>
               ELSE @]

pronoun_type_map ==
    << <<Tg.pers, <<"p">>>>, <<Tg.refl, <<"x">>>>, <<Tg.pos, <<"s">>>>,
       <<Tg.dem, <<"d">>>>, <<Tg.int, <<"q">>>>, <<Tg.rel, <<"r">>>>,
       <<Tg.neg, <<"z">>>>, <<Tg.ind, <<"i">>>>, <<Tg.gen, <<"g">>>>,
       <<Tg.emph, <<"h">>>> >>

syntactic_map ==
    << <<Tg.noun, <<"n">>>>, <<Tg.adj, <<"a">>>>, <<Tg.adv, <<"r">>>> >>

_process_pronoun(m, tag_set) ==
    [m EXCEPT
       ![1] = first_match(pronoun_type_map, tag_set, @),
       ![2] = IF Tg.pos \in tag_set THEN <<"s">> ELSE @,
       ![3] = first_match(person_map, tag_set, @),
       ![4] = first_match(gender_map, tag_set, <<"c">>),
       ![5] = animacy(tag_set, @),
       ![6] = IF Tg.p \in tag_set THEN <<"p">> ELSE <<"s">>,
       ![7] = case_slot(tag_set, @),
       ![8] = first_match(syntactic_map, tag_set, @)]

_process_adverb(m, tag_set) ==
    put(m, 1, IF Tg.compc \in tag_set THEN <<"c">>
              ELSE IF Tg.comps \in tag_set THEN <<"s">>
              ELSE <<"p">>)

_process_conjunction(m, tag_set, lem) ==
    [m EXCEPT
       ![1] = IF Tg.coord \in tag_set THEN <<"c">> ELSE <<"s">>,
       ![2] = IF contains(lem, "-") \/ contains(lem, " ") THEN <<"c">> ELSE <<"s">>]

-----------------------------------------------------------------------------
(* The lemma classifiers.                                                  *)

(* s.upper(), character by character.                                      *)
upper(s) == [i \in 1..Len(s) |-> dict_get(upper_map, s[i], s[i])]

(* str.maketrans of the four Cyrillic capitals to their Latin look-alikes. *)
translation_table ==
    << <<CyUp.I, "I">>, <<CyUp.Kh, "X">>, <<CyUp.S, "C">>, <<CyUp.M, "M">> >>

translate(s) == [i \in 1..Len(s) |-> dict_get(translation_table, s[i], s[i])]

IsPrefix(p, s) == Len(p) <= Len(s) /\ SubSeq(s, 1, Len(p)) = p

Drop(s, k) == SubSeq(s, k + 1, Len(s))

(* c{lo,hi}                                                                *)
Rep(c, lo, hi) == { [i \in 1..k |-> c] : k \in lo..hi }

(* One group of the pattern, (nine|four|five?one{0,3}).                    *)
Group(nine, four, five, one) ==
    {nine, four} \cup { f \o r : f \in {<<>>, <<five>>}, r \in Rep(one, 0, 3) }

(* re.match(roman_pattern, s) is not None.  The pattern is anchored, and   *)
(* Python's $ matches at the end of the string and before a newline that   *)
(* ends it.                                                                *)
roman_pattern(s) ==
    \E a \in Rep("M", 0, 4) :
      /\ IsPrefix(a, s)
      /\ \E b \in Group(<<"C", "M">>, <<"C", "D">>, "D", "C") :
           /\ IsPrefix(b, Drop(s, Len(a)))
           /\ \E c \in Group(<<"X", "C">>, <<"X", "L">>, "L", "X") :
                /\ IsPrefix(c, Drop(s, Len(a) + Len(b)))
                /\ \E d \in Group(<<"I", "X">>, <<"I", "V">>, "V", "I") :
                     /\ IsPrefix(d, Drop(s, Len(a) + Len(b) + Len(c)))
                     /\ Drop(s, Len(a) + Len(b) + Len(c) + Len(d))
                            \in {<<>>, <<"\n">>}

is_roman(s) == roman_pattern(translate(upper(s)))

(* The characters str.strip() and str.split() take for white space, as far *)
(* as a TLA+ string can name them (Python adds \v, the separators          *)
(* \x1c-\x1f and the Unicode spaces).                                      *)
Whitespace == {" ", "\t", "\n", "\r", "\f"}

RECURSIVE lstrip(_)
lstrip(s) == IF s # <<>> /\ s[1] \in Whitespace THEN lstrip(Tail(s)) ELSE s

RECURSIVE rstrip(_, _)
rstrip(s, cs) ==
    IF s # <<>> /\ s[Len(s)] \in cs
    THEN rstrip(SubSeq(s, 1, Len(s) - 1), cs)
    ELSE s

strip(s) == rstrip(lstrip(s), Whitespace)

Digit == {"0", "1", "2", "3", "4", "5", "6", "7", "8", "9"}

(* digit (["_"] digit)*                                                    *)
digitpart(s) ==
    /\ s # <<>>
    /\ \A i \in 1..Len(s) : s[i] \in Digit \cup {"_"}
    /\ s[1] \in Digit /\ s[Len(s)] \in Digit
    /\ \A i \in 1..(Len(s) - 1) : s[i] = "_" => s[i + 1] # "_"

(* digitpart | [digitpart] "." [digitpart], with a digit somewhere         *)
mantissa(s) ==
    \/ digitpart(s)
    \/ \E k \in 1..Len(s) :
         LET a == SubSeq(s, 1, k - 1)
             b == SubSeq(s, k + 1, Len(s))
         IN  /\ s[k] = "."
             /\ a = <<>> \/ digitpart(a)
             /\ b = <<>> \/ digitpart(b)
             /\ ~(a = <<>> /\ b = <<>>)

unsign(s) == IF s # <<>> /\ s[1] \in {"+", "-"} THEN Tail(s) ELSE s

(* float(s) does not raise ValueError: the string, stripped of white space *)
(* and of one sign, is inf, infinity or nan in any case, or a decimal      *)
(* literal with an optional exponent.                                      *)
is_number(s) ==
    LET t == unsign(strip(s))
    IN  \/ upper(t) \in { <<"I", "N", "F">>, <<"N", "A", "N">>,
                          <<"I", "N", "F", "I", "N", "I", "T", "Y">> }
        \/ mantissa(t)
        \/ \E k \in 1..Len(t) :
             /\ t[k] \in {"e", "E"}
             /\ mantissa(SubSeq(t, 1, k - 1))
             /\ digitpart(unsign(SubSeq(t, k + 1, Len(t))))

-----------------------------------------------------------------------------
_process_numeral(m, tag_set, lem, is_adj) ==
    [m EXCEPT
       ![1] = IF is_number(lem) THEN <<"d">>
              ELSE IF is_roman(lem) THEN <<"r">>
              ELSE <<"l">>,
       ![2] = IF is_adj THEN <<"o">> ELSE <<"c">>,
       ![3] = first_match(gender_map, tag_set, @),
       ![4] = IF Tg.s \in tag_set THEN <<"s">> ELSE <<"p">>,
       ![5] = case_slot(tag_set, @),
       ![6] = IF Tg.anim \in tag_set THEN <<"y">>
              ELSE IF Tg.inanim \in tag_set THEN <<"n">>
              ELSE @]

case_government ==
    << << <<Cy.z, Cy.a, Cy.v, Cy.d, Cy.ya, Cy.k, Cy.y>>, <<"d">>>>,
      << <<Cy.v, Cy.s, Cy.u, Cy.p, Cy.e, Cy.r, Cy.e, Cy.ch>>, <<"d">>>>,
      << <<Cy.u, Cy.s, Cy.u, Cy.p, Cy.e, Cy.r, Cy.e, Cy.ch>>, <<"d">>>>,
      << <<Cy.n, Cy.a, Cy.p, Cy.e, Cy.r, Cy.e, Cy.k, Cy.i, Cy.r>>, <<"d">>>>,
      << <<Cy.u, Cy.s, Cy.l, Cy.i, Cy.d>>, <<"d">>>>,
      << <<Cy.n, Cy.a, Cy.z, Cy.u, Cy.s, Cy.t, Cy.r, Cy.i, Cy.ch>>, <<"d">>>>,
      << <<Cy.n, Cy.a, Cy.p, Cy.r, Cy.o, Cy.t, Cy.y, Cy.v, Cy.a, Cy.h, Cy.u>>, <<"d">>>>,
      << <<Cy.v, Cy.o>>, <<"a">>>>,
      << <<Cy.v, Cy.i>>, <<"a">>>>,
      << <<Cy.p, Cy.r, Cy.o>>, <<"a">>>>,
      << <<Cy.ch, Cy.e, Cy.r, Cy.e, Cy.z>>, <<"a">>>>,
      << <<Cy.k, Cy.r, Cy.i, Cy.z, Cy.soft>>, <<"a">>>>,
      << <<Cy.s, Cy.k, Cy.r, Cy.i, Cy.z, Cy.soft>>, <<"a">>>>,
      << <<Cy.o, Cy.b>>, <<"a">>>>,
      << <<Cy.p, Cy.o, Cy.z, Cy.a>>, <<"a">>>>,
      << <<Cy.m, Cy.i, Cy.zh>>, <<"a">>>>,
      << <<Cy.n, Cy.e, Cy.z, Cy.v, Cy.a, Cy.zh, Cy.a, Cy.yu, Cy.ch, Cy.y>>, <<"a">>>>,
      << <<Cy.z, Cy.h, Cy.i, Cy.d, Cy.n, Cy.o, " ", Cy.z>>, <<"i">>>>,
      << <<Cy.n, Cy.a, Cy.d, Cy.o>>, <<"i">>>>,
      << <<Cy.n, Cy.a, Cy.d, Cy.i>>, <<"i">>>>,
      << <<Cy.p, Cy.e, Cy.r, Cy.e, Cy.d, Cy.o>>, <<"i">>>>,
      << <<Cy.p, Cy.e, Cy.r, Cy.e, Cy.d, Cy.i>>, <<"i">>>>,
      << <<Cy.p, Cy.r, Cy.y>>, <<"l">>>>,
      << <<Cy.v, Cy.v, Cy.i>>, <<"l">>>>,
      << <<Cy.u, Cy.v, Cy.i>>, <<"l">>>>,
      << <<Cy.v>>, <<"a", "g", "l">>>>,
      << <<Cy.u>>, <<"a", "g", "l">>>>,
      << <<Cy.u, Cy.v>>, <<"a", "g", "l">>>>,
      << <<Cy.p, Cy.o, Cy.p, Cy.r, Cy.y>>, <<"a", "g", "l">>>>,
      << <<Cy.z, Cy.a>>, <<"a", "i">>>>,
      << <<Cy.n, Cy.a, Cy.d>>, <<"a", "i">>>>,
      << <<Cy.p, Cy.e, Cy.r, Cy.e, Cy.d>>, <<"a", "i">>>>,
      << <<Cy.p, Cy.o, Cy.n, Cy.a, Cy.d>>, <<"a", "i">>>>,
      << <<Cy.p, Cy.o, Cy.p, Cy.i, Cy.d>>, <<"a", "i">>>>,
      << <<Cy.p, Cy.i, Cy.d>>, <<"a", "i">>>>,
      << <<Cy.n, Cy.a>>, <<"a", "l">>>>,
      << <<Cy.o>>, <<"a", "l">>>>,
      << <<Cy.p, Cy.o>>, <<"a", "l">>>>,
      << <<Cy.z>>, <<"g", "i">>>>,
      << <<Cy.i, Cy.z>>, <<"g", "i">>>>,
      << <<Cy.m, Cy.e, Cy.zh>>, <<"a", "g", "i">>>>,
      << <<Cy.m, Cy.e, Cy.zh, Cy.y>>, <<"a", "g", "i">>>>,
      << <<Cy.p, Cy.o, Cy.m, Cy.i, Cy.zh>>, <<"a", "g", "i">>>>,
      << <<Cy.p, Cy.o, Cy.p, Cy.e, Cy.r, Cy.e, Cy.d>>, <<"a", "g", "i">>>>,
      << <<Cy.p, Cy.o, Cy.v, Cy.z>>, <<"a", "g">>>> >>

_process_preposition(m, tag_set, lem) ==
    [m EXCEPT
       ![1] = <<"p">>,
       ![2] = IF contains(lem, "-") THEN <<"c">> ELSE <<"s">>,
       ![3] = dict_get(case_government, lem, <<"g">>)]

-----------------------------------------------------------------------------
(* tags_to_msd, in its three parts.                                        *)

(* base_pos taken from the end of the list.                                *)
base_pos_last(tgs) == IF tgs # <<>> THEN tgs[Len(tgs)] ELSE <<>>

(* base_pos = tags[0] if tags else ''                                      *)
base_pos_of(tgs) == IF tgs # <<>> THEN tgs[1] ELSE <<>>

(* pos_letter with the pronoun test ahead of the numeral-adjective test.   *)
pos_letter_pronoun_first(tgs) ==
    IF Tg.pron \in Range(tgs) THEN <<"P">>
    ELSE IF Tg.numr \in Range(tgs) /\ Tg.adj \in Range(tgs) THEN <<"M">>
    ELSE dict_get(pos_map, IF tgs # <<>> THEN tgs[1] ELSE <<>>, <<"X">>)

(* pos_letter with the abbreviation branch the source has commented out.   *)
pos_letter_abbr(tgs) ==
    IF Tg.numr \in Range(tgs) /\ Tg.adj \in Range(tgs) THEN <<"M">>
    ELSE IF Tg.pron \in Range(tgs) THEN <<"P">>
    ELSE IF Tg.abbr \in Range(tgs) THEN <<"Y">>
    ELSE dict_get(pos_map, IF tgs # <<>> THEN tgs[1] ELSE <<>>, <<"X">>)

(* The value given to msd[0].                                              *)
pos_letter(tgs) ==
    LET tag_set == Range(tgs)
    IN  IF Tg.numr \in tag_set /\ Tg.adj \in tag_set THEN <<"M">>
        ELSE IF Tg.pron \in tag_set THEN <<"P">>
        ELSE dict_get(pos_map, base_pos_of(tgs), <<"X">>)

(* The letters that have an encoder.                                       *)
Encoded == { <<"N">>, <<"V">>, <<"A">>, <<"P">>, <<"R">>, <<"C">>, <<"M">>, <<"S">> }

(* "Process by POS category": the template after the encoder chosen by     *)
(* msd[0] has run, or unchanged when msd[0] has none.                      *)
process(m, tgs, lem) ==
    LET tag_set == Range(tgs)
        base_pos == base_pos_of(tgs)
    IN  IF m[0] = <<"N">> THEN _process_noun(m, tag_set)
        ELSE IF m[0] = <<"V">> THEN _process_verb(m, tag_set, base_pos)
        ELSE IF m[0] = <<"A">>
             THEN _process_adjective(m, tag_set, base_pos, Tg.adjp \in tag_set)
        ELSE IF m[0] = <<"P">> THEN _process_pronoun(m, tag_set)
        ELSE IF m[0] = <<"R">> THEN _process_adverb(m, tag_set)
        ELSE IF m[0] = <<"C">> THEN _process_conjunction(m, tag_set, lem)
        ELSE IF m[0] = <<"M">>
             THEN _process_numeral(m, tag_set, lem, Tg.adj \in tag_set)
        ELSE IF m[0] = <<"S">> THEN _process_preposition(m, tag_set, lem)
        ELSE m

(* ''.join(msd)                                                            *)
RECURSIVE join_from(_, _)
join_from(m, i) == IF i >= MsdLen THEN <<>> ELSE m[i] \o join_from(m, i + 1)

join(m) == join_from(m, 0)

(* render without the trimming.                                            *)
render_untrimmed(m) == IF join(m) # <<>> THEN join(m) ELSE <<"-">>

(* msd_str = ''.join(msd).rstrip('-'); return msd_str if msd_str else '-'  *)
render(m) ==
    LET msd_str == rstrip(join(m), {"-"})
    IN  IF msd_str # <<>> THEN msd_str ELSE <<"-">>

tags_to_msd(tgs, lem) ==
    render(process(put(template, 0, pos_letter(tgs)), tgs, lem))

-----------------------------------------------------------------------------
(* The inputs explored.                                                    *)

(* All strings over the alphabet A of length at most k.                    *)
Strings(A, k) == UNION { [1..n -> A] : n \in 0..k }

(* A tag the source does not know.                                         *)
Unknown == <<"z", "z">>

(* The base tags of pos_map, the pronoun and abbreviation markers and an   *)
(* unknown tag.                                                            *)
PosVocab ==
    { Tg.noun, Tg.verb, Tg.adj, Tg.adv, Tg.advp, Tg.adjp, Tg.prep, Tg.conj,
      Tg.part, Tg.intj, Tg.numr, Tg.noninfl, Tg.onomat, Tg.insert,
      Tg.pron, Tg.abbr, Unknown }

(* Lemmas: empty, a listed preposition with three cases, a Roman numeral,  *)
(* a number, a hyphenated word.                                            *)
Lemmas ==
    { <<>>, <<Cy.v>>, <<"X", "I", "V">>, <<"3">>, <<Cy.z, "-", Cy.z, Cy.a>> }

(* The variables of the parts of the program a specification leaves idle.  *)
IdleAux == ret = [fn |-> "none", val |-> FALSE]

IdleMain ==
    /\ infile = <<>> /\ line_num = 0 /\ line = <<>>
    /\ outfile = <<>> /\ stderr = <<>> /\ line_count = 0

IdleCore == tags = <<>> /\ msd = template /\ out = <<>>

(* A call tags_to_msd(tags, lemma), at its first statement.                *)
Init ==
    /\ tags \in Strings(PosVocab, MaxTags)
    /\ lemma \in Lemmas
    /\ msd = template
    /\ out = <<>>
    /\ pc = "classify"
    /\ IdleAux /\ IdleMain

(* msd[0] is set from the bundle.                                          *)
Classify ==
    /\ pc = "classify"
    /\ msd' = put(msd, 0, pos_letter(tags))
    /\ pc' = "process"
    /\ UNCHANGED <<tags, lemma, out, ret, infile, line_num, line, outfile,
                   stderr, line_count>>

(* The encoder chosen by msd[0] fills its positions.                       *)
Encode(letter, m) ==
    /\ pc = "process"
    /\ msd[0] = letter
    /\ msd' = m
    /\ pc' = "render"
    /\ UNCHANGED <<tags, lemma, out, ret, infile, line_num, line, outfile,
                   stderr, line_count>>

ProcessNoun == Encode(<<"N">>, _process_noun(msd, Range(tags)))

ProcessVerb == Encode(<<"V">>, _process_verb(msd, Range(tags), base_pos_of(tags)))

ProcessAdjective ==
    Encode(<<"A">>, _process_adjective(msd, Range(tags), base_pos_of(tags),
                                      Tg.adjp \in Range(tags)))

ProcessPronoun == Encode(<<"P">>, _process_pronoun(msd, Range(tags)))

ProcessAdverb == Encode(<<"R">>, _process_adverb(msd, Range(tags)))

ProcessConjunction == Encode(<<"C">>, _process_conjunction(msd, Range(tags), lemma))

ProcessNumeral ==
    Encode(<<"M">>, _process_numeral(msd, Range(tags), lemma, Tg.adj \in Range(tags)))

ProcessPreposition == Encode(<<"S">>, _process_preposition(msd, Range(tags), lemma))

(* msd[0] has no encoder: the if/elif chain falls through.                 *)
NoEncoder ==
    /\ pc = "process"
    /\ msd[0] \notin Encoded
    /\ pc' = "render"
    /\ UNCHANGED <<tags, lemma, msd, out, ret, infile, line_num, line,
                   outfile, stderr, line_count>>

(* The template is joined and trimmed, and returned.                       *)
Render ==
    /\ pc = "render"
    /\ out' = render(msd)
    /\ pc' = "done"
    /\ UNCHANGED <<tags, lemma, msd, ret, infile, line_num, line, outfile,
                   stderr, line_count>>

Next ==
    \/ Classify
    \/ ProcessNoun
    \/ ProcessVerb
    \/ ProcessAdjective
    \/ ProcessPronoun
    \/ ProcessAdverb
    \/ ProcessConjunction
    \/ ProcessNumeral
    \/ ProcessPreposition
    \/ NoEncoder
    \/ Render

Spec == Init /\ [][Next]_vars

-----------------------------------------------------------------------------
(* Noun and adjective bundles with their feature tags.                     *)

FeatVocab ==
    { Tg.noun, Tg.adj, Tg.p, Tg.c, Tg.m, Tg.nv, Tg.v_naz, Tg.v_zna, Tg.ranim }

InitFeat ==
    /\ tags \in Strings(FeatVocab, MaxFeatTags)
    /\ lemma = <<>>
    /\ msd = template
    /\ out = <<>>
    /\ pc = "classify"
    /\ IdleAux /\ IdleMain

NextFeat ==
    \/ Classify
    \/ ProcessNoun
    \/ ProcessAdjective
    \/ NoEncoder
    \/ Render

SpecFeat == InitFeat /\ [][NextFeat]_vars

-----------------------------------------------------------------------------
(* Calls of the lemma classifiers.                                         *)

(* Roman letters in both cases and both scripts, a letter that is none,    *)
(* a digit, the decimal point and the newline.                             *)
LemmaAlphabet ==
    { "X", "I", "V", "i", CyUp.Kh, Cy.i, "a", "1", ".", "\n" }

InitAux ==
    /\ lemma \in Strings(LemmaAlphabet, MaxLemmaLen)
    /\ pc = "call"
    /\ IdleAux /\ IdleCore /\ IdleMain

Call_is_roman ==
    /\ pc = "call"
    /\ ret' = [fn |-> "is_roman", val |-> is_roman(lemma)]
    /\ pc' = "returned"
    /\ UNCHANGED <<tags, lemma, msd, out, infile, line_num, line, outfile,
                   stderr, line_count>>

Call_is_number ==
    /\ pc = "call"
    /\ ret' = [fn |-> "is_number", val |-> is_number(lemma)]
    /\ pc' = "returned"
    /\ UNCHANGED <<tags, lemma, msd, out, infile, line_num, line, outfile,
                   stderr, line_count>>

NextAux == Call_is_roman \/ Call_is_number

SpecAux == InitAux /\ [][NextAux]_vars

-----------------------------------------------------------------------------
(* The line driver, main.                                                  *)

(* s.split(maxsplit=k): fields separated by runs of white space; after k   *)
(* splits the rest of the string, less its leading white space, is the     *)
(* last field.                                                             *)
RECURSIVE split(_, _)
split(s, k) ==
    LET t == lstrip(s)
        ends == { i \in 1..Len(t) : t[i] \in Whitespace }
        n == IF ends = {} THEN Len(t) ELSE Min(ends) - 1
    IN  IF t = <<>> THEN <<>>
        ELSE IF k = 0 THEN <<t>>
        ELSE <<SubSeq(t, 1, n)>> \o split(Drop(t, n), k - 1)

(* s.split(c): the pieces of s between the occurrences of c.               *)
RECURSIVE split_at(_, _)
split_at(s, c) ==
    LET hits == { i \in 1..Len(s) : s[i] = c }
    IN  IF hits = {} THEN <<s>>
        ELSE <<SubSeq(s, 1, Min(hits) - 1)>> \o split_at(Drop(s, Min(hits)), c)

(* str(n) of a natural number: its decimal digits.                         *)
RECURSIVE str(_)
str(n) ==
    LET digit == <<"0", "1", "2", "3", "4", "5", "6", "7", "8", "9">>[(n % 10) + 1]
    IN  IF n < 10 THEN <<digit>> ELSE str(n \div 10) \o <<digit>>

(* The warning with the line number counted from 0.                       *)
Warning_from_zero(n, l) ==
    [text |-> "Warning: Line {} has insufficient parts: {}",
     args |-> <<str(n - 1), l>>]

(* print(f"...", file=sys.stderr): the format and its rendered arguments.  *)
Warning(n, l) ==
    [text |-> "Warning: Line {} has insufficient parts: {}", args |-> <<str(n), l>>]

Success(n) ==
    [text |-> "Successfully processed {} lines.", args |-> <<str(n)>>]

(* f"{lemma}\t{word}\t{tag_str}\t{msd_tag}\n"                              *)
Record(parts, msd_tag) ==
    parts[1] \o <<"\t">> \o parts[2] \o <<"\t">> \o parts[3] \o <<"\t">>
      \o msd_tag \o <<"\n">>

(* The text of input lines: every string over a blank and a letter, and    *)
(* some records of three and more fields.                                  *)
LineAlphabet == {" ", "a"}

SampleLines ==
    { <<"a", " ", "a", " ", "p">>,
      <<" ", "a", "\t", "a", " ", " ", "p", " ", "a", " ">>,
      <<"3", " ", "a", " ">> \o Tg.numr \o <<":">> \o Tg.adj,
      <<Cy.v, " ", Cy.v, " ">> \o Tg.prep }

Contents == Strings(LineAlphabet, MaxLineLen) \cup SampleLines

(* The file as the iteration over it yields it: each line with its "\n",   *)
(* which only the last line may lack.                                      *)
InitMain ==
    /\ \E cs \in Strings(Contents, MaxLines), nl \in BOOLEAN :
         /\ nl \/ (cs # <<>> /\ cs[Len(cs)] # <<>>)
         /\ infile = [i \in 1..Len(cs) |->
                        IF i < Len(cs) \/ nl THEN cs[i] \o <<"\n">> ELSE cs[i]]
    /\ line_num = 0
    /\ line = <<>>
    /\ outfile = <<>>
    /\ stderr = <<>>
    /\ line_count = 0
    /\ pc = "loop"
    /\ lemma = <<>>
    /\ IdleAux /\ IdleCore

(* One iteration of the loop reads line number line_num + 1.               *)
Read ==
    /\ pc = "loop"
    /\ line_num < Len(infile)
    /\ line_num' = line_num + 1
    /\ line' = infile[line_num + 1]
    /\ UNCHANGED <<msd, ret, infile>>

(* if not line: outfile.write('\n'); continue                              *)
MainBlank ==
    /\ Read
    /\ strip(line') = <<>>
    /\ outfile' = Append(outfile, <<"\n">>)
    /\ UNCHANGED <<tags, lemma, out, stderr, line_count, pc>>

(* if len(parts) < 3: warn, write the line, continue                       *)
MainInsufficient ==
    /\ Read
    /\ strip(line') # <<>>
    /\ Len(split(strip(line'), 2)) < 3
    /\ stderr' = Append(stderr, Warning(line_num', strip(line')))
    /\ outfile' = Append(outfile, strip(line') \o <<"\n">>)
    /\ UNCHANGED <<tags, lemma, out, line_count, pc>>

(* lemma, word, tag_str = parts; the record is converted and written.      *)
(* tags_to_msd raises nothing, so the except branch is never taken.        *)
(* tags, lemma and out hold the arguments and the result of the call.      *)
MainConvert ==
    /\ Read
    /\ strip(line') # <<>>
    /\ Len(split(strip(line'), 2)) >= 3
    /\ lemma' = split(strip(line'), 2)[1]
    /\ tags' = split_at(split(strip(line'), 2)[3], ":")
    /\ out' = tags_to_msd(tags', lemma')
    /\ outfile' = Append(outfile, Record(split(strip(line'), 2), out'))
    /\ line_count' = line_count + 1
    /\ UNCHANGED <<stderr, pc>>

(* After the last line: print(f"Successfully processed ...")               *)
MainFinish ==
    /\ pc = "loop"
    /\ line_num = Len(infile)
    /\ stderr' = Append(stderr, Success(line_count))
    /\ pc' = "done"
    /\ UNCHANGED <<tags, lemma, msd, out, ret, infile, line_num, line,
                   outfile, line_count>>

NextMain == MainBlank \/ MainInsufficient \/ MainConvert \/ MainFinish

SpecMain == InitMain /\ [][NextMain]_vars

-----------------------------------------------------------------------------
(* Properties of tags_to_msd, checked under Spec.                          *)

Done == pc = "done"

Encoding == pc \in {"render", "done"}

(* C1: a bundle that contains both numr and adj, whatever else it holds    *)
(* and whatever the lemma, is returned a code with M at position 0 and the *)
(* ordinal letter o at position 2.                                         *)
C1_NumeralAdjectiveIsOrdinal ==
    (Done /\ Tg.numr \in Range(tags) /\ Tg.adj \in Range(tags))
        => (Len(out) >= 3 /\ out[1] = "M" /\ out[3] = "o")

C1_Witness ==
    /\ Done
    /\ {Tg.numr, Tg.adj, Tg.pron} \subseteq Range(tags)
    /\ tags[1] = Tg.pron
    /\ out[1] = "M" /\ out[3] = "o"

(* The base-tag / letter pairs as the claim C2 lists them.                 *)
C2_Table ==
    << <<Tg.noun, "N">>, <<Tg.verb, "V">>, <<Tg.adj, "A">>, <<Tg.adv, "R">>,
       <<Tg.advp, "V">>, <<Tg.adjp, "A">>, <<Tg.prep, "S">>, <<Tg.conj, "C">>,
       <<Tg.part, "Q">>, <<Tg.intj, "I">>, <<Tg.numr, "M">>,
       <<Tg.noninfl, "X">>, <<Tg.onomat, "I">>, <<Tg.insert, "X">> >>

C2_Listed(t) == \E i \in 1..Len(C2_Table) : C2_Table[i][1] = t

(* C2 as stated: a bundle whose first tag is a base tag of the table has   *)
(* that tag's letter at position 0, whatever the remaining tags are.       *)
C2_FirstTagAloneDecides ==
    (Done /\ tags # <<>> /\ C2_Listed(tags[1]))
        => out[1] = dict_get(C2_Table, tags[1], "?")

(* C2, amended: a bundle whose first tag is a base tag of the table has    *)
(* that tag's letter at position 0, unless it contains both numr and adj   *)
(* (position 0 is then M) or, failing that, contains pron (it is then P).  *)
C2_FirstTagDecidesUnlessOverridden ==
    (Done /\ tags # <<>> /\ C2_Listed(tags[1]))
        => out[1] = IF Tg.numr \in Range(tags) /\ Tg.adj \in Range(tags) THEN "M"
                    ELSE IF Tg.pron \in Range(tags) THEN "P"
                    ELSE dict_get(C2_Table, tags[1], "?")

C2_Witness ==
    /\ Done
    /\ Len(tags) >= 3
    /\ tags[1] = Tg.advp /\ tags[2] = Tg.noun /\ tags[3] = Tg.adj
    /\ out[1] = "V"

(* C3 as stated: for a non-empty bundle the letter at position 0 is one of *)
(* N, V, A, P, R, C, M, S, X.                                              *)
C3_LetterAmongNine ==
    (Done /\ tags # <<>>)
        => out[1] \in {"N", "V", "A", "P", "R", "C", "M", "S", "X"}

(* C3, amended: for a non-empty bundle the letter at position 0 is one of  *)
(* N, V, A, P, R, C, M, S, X, Q, I.                                        *)
C3_LetterAmongEleven ==
    (Done /\ tags # <<>>)
        => out[1] \in {"N", "V", "A", "P", "R", "C", "M", "S", "X", "Q", "I"}

C3_Witness ==
    /\ Done
    /\ tags # <<>> /\ tags[1] = Tg.part
    /\ out[1] = "Q"

(* C4: for every bundle, the empty one included, and every lemma the       *)
(* returned string is not empty and is the joined template less its        *)
(* trailing '-': it is a prefix of the joined template, what follows it is *)
(* all '-', and it does not end in '-'; its first character is the letter  *)
(* at position 0; and it is the lone '-' only if the joined template is    *)
(* nothing but '-'.                                                        *)
C4_RenderedIsTrimmedTemplate ==
    Done =>
      /\ out # <<>>
      /\ IsPrefix(out, join(msd))
      /\ \A i \in (Len(out) + 1)..Len(join(msd)) : join(msd)[i] = "-"
      /\ out[Len(out)] # "-"
      /\ <<out[1]>> = msd[0]
      /\ out = <<"-">> => \A i \in 1..Len(join(msd)) : join(msd)[i] = "-"

C4_Witness ==
    /\ Done
    /\ tags = <<>>
    /\ out = <<"X">>
    /\ Len(join(msd)) = MsdLen

(* C5: once an encoder has run every one of the 15 positions holds exactly *)
(* one character, so the untrimmed code has length 15 and the returned     *)
(* code at most 15, prepositions included.                                 *)
C5_OneCharacterPerPosition ==
    Encoding =>
      /\ \A i \in 0..(MsdLen - 1) : Len(msd[i]) = 1
      /\ Len(join(msd)) = MsdLen
      /\ Done => Len(out) <= MsdLen

(* The bundle less its order and its repetitions: the first tag, then the  *)
(* tags of the bundle once each in an order fixed by the set alone.        *)
RECURSIVE SetToSeq(_)
SetToSeq(S) ==
    IF S = {} THEN <<>>
    ELSE LET x == CHOOSE y \in S : TRUE IN <<x>> \o SetToSeq(S \ {x})

Canon(tgs) == IF tgs = <<>> THEN <<>> ELSE <<tgs[1]>> \o SetToSeq(Range(tgs))

(* C8: the returned code depends on the bundle only through its first tag  *)
(* and its set of tags: it is the code of the bundle that Canon builds     *)
(* from those two alone, so that two bundles with the same first tag and   *)
(* the same set of tags, having the same Canon, are returned the same code.*)
C8_DependsOnFirstAndSet ==
    Done => out = tags_to_msd(Canon(tags), lemma)

C8_Witness ==
    /\ Done
    /\ tags # Canon(tags)
    /\ Len(tags) = 3 /\ tags[1] = Tg.pron /\ tags[2] = Tg.adv /\ tags[3] = Tg.noun
    /\ out[9] = "n"

-----------------------------------------------------------------------------
(* Properties of the noun and adjective encoders, checked under SpecFeat.  *)

(* C9: in the adjective encoder position 7 holds a letter only when the    *)
(* case position 5 holds the accusative a.                                 *)
C9_AnimacyOnlyWithAccusativeCase ==
    (Encoding /\ msd[0] = <<"A">>)
        => (msd[7] # <<"-">> => msd[5] = <<"a">>)

(* C10: in the noun encoder position 2 is '-' when p is present and none   *)
(* of m, f, n, c is; otherwise it is the first present of m, f, n, c, and  *)
(* '-' when none is.                                                       *)
C10_NounGender ==
    (Encoding /\ msd[0] = <<"N">>)
        => msd[2] = IF Tg.m \in Range(tags) THEN <<"m">>
                    ELSE IF Tg.f \in Range(tags) THEN <<"f">>
                    ELSE IF Tg.n \in Range(tags) THEN <<"n">>
                    ELSE IF Tg.c \in Range(tags) THEN <<"c">>
                    ELSE <<"-">>

-----------------------------------------------------------------------------
(* Property of is_roman, checked under SpecAux.                            *)

(* C6: is_roman returns false for the empty string.                        *)
C6_EmptyIsNotRoman ==
    (ret.fn = "is_roman" /\ lemma = <<>>) => ret.val = FALSE

-----------------------------------------------------------------------------
(* Properties of main, checked under SpecMain.                             *)

(* The number of fields of a line: its maximal runs of other characters    *)
(* than white space.                                                       *)
NFields(s) ==
    Cardinality({ i \in 1..Len(s) :
                    /\ s[i] \notin Whitespace
                    /\ i = 1 \/ s[i - 1] \in Whitespace })

(* The line less its terminator.                                           *)
Chomp(s) ==
    IF s # <<>> /\ s[Len(s)] = "\n" THEN SubSeq(s, 1, Len(s) - 1) ELSE s

(* The line from its first to its last character that is no white space.   *)
Trimmed(s) ==
    LET ink == { i \in 1..Len(s) : s[i] \notin Whitespace }
    IN  IF ink = {} THEN <<>>
        ELSE SubSeq(s, Min(ink), CHOOSE i \in ink : \A j \in ink : j <= i)

Insufficient(k) == NFields(infile[k]) \in {1, 2}

WarningsFor(k) ==
    { j \in 1..Len(stderr) :
        /\ stderr[j].text = "Warning: Line {} has insufficient parts: {}"
        /\ stderr[j].args[1] = str(k) }

(* C7 as stated: a line of one or two fields is written as it stood in the *)
(* input, no character but the line terminator added or removed.           *)
C7_InsufficientLineVerbatim ==
    \A k \in 1..line_num :
        Insufficient(k) => Chomp(outfile[k]) = Chomp(infile[k])

(* C7, amended: every line read has produced one record; a line of one or  *)
(* two fields is written with its leading and trailing white space removed *)
(* and a newline after it, exactly one warning names its 1-based number,   *)
(* no code is computed for it (line_count counts only the lines of three   *)
(* fields); and the loop goes on to the end of the file.                   *)
C7_InsufficientLineStripped ==
    /\ Len(outfile) = line_num
    /\ \A k \in 1..line_num :
         /\ Insufficient(k) =>
              /\ outfile[k] = Trimmed(infile[k]) \o <<"\n">>
              /\ Cardinality(WarningsFor(k)) = 1
         /\ ~Insufficient(k) => WarningsFor(k) = {}
    /\ line_count = Cardinality({ k \in 1..line_num : NFields(infile[k]) >= 3 })
    /\ pc = "done" => line_num = Len(infile)

C7_Witness ==
    /\ pc = "done"
    /\ Len(infile) = 2
    /\ infile[1] = <<" ", "a", " ", "\n">>
    /\ NFields(infile[2]) >= 3
    /\ outfile[1] = <<"a", "\n">>
    /\ WarningsFor(1) = {1}

====
